---- MODULE Spec2Model ----
(***************************************************************************)
(* Monkey Fire: the simulation core of src/main.rs, src/player.rs and      *)
(* src/enemy/mod.rs as a state machine.                                    *)
(*                                                                         *)
(* One frame of the Update stage is: the run criteria are evaluated, every *)
(* system that is due runs once, in an order the scheduler chooses, each   *)
(* writing its spawns and despawns to its own command queue; the queues    *)
(* are applied to the entity store when all of them have run; a            *)
(* FixedTimestep criterion whose accumulator still holds a step runs its   *)
(* system again (and the queues are applied again) before the frame ends.  *)
(*                                                                         *)
(* Lengths are in thirds of a pixel, so that TIME_STEP * BASE_SPEED        *)
(* (500/60 px) is the integer 25.  The clock counts twentieths of a second.*)
(***************************************************************************)
EXTENDS Integers, Sequences, FiniteSets, TLC

VARIABLES
    store,        \* the entity store: live entity id -> components
    cmds,         \* per system: its Commands queue, not yet applied
    enemy_count,  \* EnemyCount resource
    player_state, \* PlayerState resource: [on, last_shot]
    score,        \* Scoreboard.score
    sprite,       \* PlayerSprite resource: [state, direction]
    now,          \* Time::seconds_since_startup of the current frame
    delta,        \* Time::delta of the current frame
    pacc,         \* accumulator of FixedTimestep::step(0.5) (player spawn)
    eacc,         \* accumulator of FixedTimestep::step(1.0) (enemy spawn)
    due,          \* systems whose run criteria said yes for this pass
    ran,          \* systems that have run in this pass
    kb,           \* Input<KeyCode> of the frame: [space, left, right, held]
    presses,      \* fire-key presses the environment has left
    gates,        \* enemy-fire gate openings the environment has left
    overflowed    \* an unchecked u32 subtraction went below zero

vars == <<store, cmds, enemy_count, player_state, score, sprite, now, delta,
          pacc, eacc, due, ran, kb, presses, gates, overflowed>>

----------------------------------------------------------------------------
(* Bounds of the model.                                                    *)

\* half the window's width and height, in pixels (WinSize is read from the
\* primary window at startup)
WinHalfW == 1
WinHalfH == 1
\* where the clock of each specification stops (half seconds)
AttackTime == 6
DefenceTime == 10
RespawnTime == 10
MoveTime == 9
AnimTime == 4
\* how long the battle lasts after its first frame boundary (half seconds)
BattleTime == 2
\* the longest frame of the specifications with short frames (twentieths)
MaxDelta == 2
\* how often the environment presses the fire key / opens the enemy-fire gate
MaxPresses == 2
MaxGates == 1
\* how long the explosions are watched after the battle's start (half seconds)
ExplosionTime == 3
\* where the clock of the fire key's game stops (half seconds)
TriggerTime == 4
\* how long the keys are watched after the battle's start (half seconds)
AbsentTime == 3
\* where the clock of the enemies' flight stops (half seconds)
FormationTime == 20
\* the ticks within which an enemy's angle advances / it stands on its target
CommitTicks == 6
ReachTicks == 5
\* how long the fires are watched after the battle's start (half seconds)
FlyoutTime == 12
\* the ticks within which a fire is gone
FlyoutTicks == 6
\* where the clock of the drifting sprite stops (half seconds)
DriftTime == 3
\* how far within the window's bounds the drifting sprite starts (thirds of
\* a pixel)
DriftInset == 1

----------------------------------------------------------------------------
(* Program constants.                                                      *)

Px(n) == 3 * n
Seconds(n) == 20 * n

PLAYER_SIZE == <<140, 168>>
PLAYER_FIRE_SIZE == <<70, 70>>
ENEMY_SIZE == <<256, 222>>
ENEMY_FIRE_SIZE == <<72, 64>>
SPRITE_SCALE_INV == 2
TIME_STEP_INV == 60
BASE_SPEED == 500
PLAYER_RESPAWN_DELAY == Seconds(2)
ENEMY_MAX == 2
EXPLOSION_LEN == 10
MARGIN == 50
PLAYER_SPAWN_STEP == Seconds(1) \div 2
ENEMY_SPAWN_STEP == Seconds(1)
NOT_SHOT == -1

\* velocity * TIME_STEP * BASE_SPEED for a unit velocity
MoveDist == Px(BASE_SPEED) \div TIME_STEP_INV

WinSize == [width |-> 2 * Px(WinHalfW), height |-> 2 * Px(WinHalfH)]

----------------------------------------------------------------------------
(* u32 values, as two 16-bit limbs <<high, low>>.                          *)

Limb == 2^16
U32(n) == <<n \div Limb, n % Limb>>
U32_MAX == <<Limb - 1, Limb - 1>>


u32_lt(a, b) == a[1] < b[1] \/ (a[1] = b[1] /\ a[2] < b[2])

\* a + 1 and a - 1 modulo 2^32
wrapping_inc(a) ==
    IF a[2] < Limb - 1 THEN <<a[1], a[2] + 1>> ELSE <<(a[1] + 1) % Limb, 0>>
wrapping_dec(a) ==
    IF a[2] > 0 THEN <<a[1], a[2] - 1>> ELSE <<(a[1] - 1) % Limb, Limb - 1>>

\* u32 subtraction of 1 that wraps below zero instead of saturating
saturating_sub_wrapping(a) == wrapping_dec(a)

\* u32::saturating_add(1) and u32::saturating_sub(1)
saturating_add(a) == IF a = U32_MAX THEN a ELSE wrapping_inc(a)
saturating_sub(a) == IF a = U32(0) THEN a ELSE wrapping_dec(a)

----------------------------------------------------------------------------
(* Entities.                                                               *)

Kinds == {"Player", "Enemy", "PlayerFire", "EnemyFire", "ExplosionToSpawn",
          "Explosion"}
Slots == 2 * (MaxPresses + ENEMY_MAX * MaxGates) + ENEMY_MAX + 2
Ids == Kinds \X (1..Slots)

Live(kind) == {id \in DOMAIN store : id[1] = kind}

Min(S) == CHOOSE m \in S : \A n \in S : m <= n

\* the numbers of a set in increasing order
SortedSeq(S) ==
    [i \in 1..Cardinality(S) |->
        CHOOSE m \in S : Cardinality({n \in S : n < m}) = i - 1]

\* a query's iteration order over the entities of one archetype
Query(kind) == LET ns == SortedSeq({id[2] : id \in Live(kind)})
               IN [i \in 1..Len(ns) |-> <<kind, ns[i]>>]

AllCmds == UNION {{cmds[s][i] : i \in 1..Len(cmds[s])} : s \in DOMAIN cmds}
Reserved == {c.id : c \in {c \in AllCmds : c.op = "spawn"}}

\* Entities::reserve_entity: ids that are neither live nor reserved
Free(kind, more) ==
    {n \in 1..Slots : <<kind, n>> \notin DOMAIN store \cup Reserved \cup more}

Despawn(id) == [op |-> "despawn", id |-> id]
Spawn(id, ent) == [op |-> "spawn", id |-> id, ent |-> ent]

\* the Formation component: lengths in thirds of a pixel, the angle in
\* degrees, the speed in pixels per second
Formation(start, pivot, radius, angle, speed) ==
    [start |-> start, pivot |-> pivot, radius |-> radius, angle |-> angle,
     speed |-> speed]

\* the formation of an entity without the component
NoFormation == Formation(<<0, 0>>, <<0, 0>>, <<0, 0>>, 0, 0)

\* the components the systems read and write; sinv is 1/|scale| and sx the
\* sign of transform.scale.x
Entity(x, y, vx, vy, exit, size, sinv, index, lo, hi) ==
    [x |-> x, y |-> y, vx |-> vx, vy |-> vy, exit |-> exit, size |-> size,
     sinv |-> sinv, sx |-> 1, index |-> index, lo |-> lo, hi |-> hi,
     timer |-> 0, finished |-> FALSE, formation |-> NoFormation]

\* bevy::sprite::collide_aabb::collide(a_pos, a_size, b_pos, b_size).is_some(),
\* on doubled coordinates: a_min < b_max and a_max > b_min on both axes
collide(ax, ay, asize, bx, by, bsize) ==
    /\ 2 * ax - asize[1] < 2 * bx + bsize[1]
    /\ 2 * ax + asize[1] > 2 * bx - bsize[1]
    /\ 2 * ay - asize[2] < 2 * by + bsize[2]
    /\ 2 * ay + asize[2] > 2 * by - bsize[2]

\* size.0 * scale.xy().abs()
Extent(e) == <<Px(e.size[1]) \div e.sinv, Px(e.size[2]) \div e.sinv>>

Collides(a, b) == collide(a.x, a.y, Extent(a), b.x, b.y, Extent(b))

----------------------------------------------------------------------------
(* Scheduling.                                                             *)

PlayerSystems == <<"player_spawn_system", "player_keyboard_event_system",
                   "player_fire_system", "player_animate">>
EnemySystems == <<"enemy_spawn_system", "enemy_fire_system",
                  "enemy_movement_system">>
MainSystems == <<"movable_system", "player_fire_hit_enemy_system",
                 "enemy_fire_hit_player_system", "explosion_to_spawn_system",
                 "explosion_animation_system", "animate_system">>
Systems == PlayerSystems \o EnemySystems \o MainSystems
SystemSet == {Systems[i] : i \in 1..Len(Systems)}

\* the systems added with a run criterion
Gated == {"player_spawn_system", "enemy_spawn_system", "enemy_fire_system"}

\* player_animate.after(player_spawn_system).after(player_keyboard_event_system)
After(s) == IF s = "player_animate"
            THEN {"player_spawn_system", "player_keyboard_event_system"}
            ELSE {}

Runnable(s) == s \in due /\ s \notin ran /\ (After(s) \cap due) \subseteq ran

NoCmds == [s \in SystemSet |-> <<>>]

\* what a system leaves behind: its queue grown by q, and itself marked run
Done(s, q) ==
    /\ cmds' = [cmds EXCEPT ![s] = @ \o q]
    /\ ran' = ran \cup {s}

Clock == <<now, delta, pacc, eacc, due, kb, presses, gates>>

\* the k smallest free ids of a kind, given the ids reserved so far in a pass
Fresh(kind, more, k) == SubSeq(SortedSeq(Free(kind, more)), 1, k)

----------------------------------------------------------------------------
(* Spawning.                                                               *)

\* shot that leaves `on` as it is
shot_staying_on(time) == [on |-> TRUE, last_shot |-> time]

\* PlayerState::shot and PlayerState::spawned
shot(time) == [on |-> FALSE, last_shot |-> time]
spawned == [on |-> TRUE, last_shot |-> NOT_SHOT]

\* ShouldSpawnPlayer without the test of player_state.on
ShouldSpawnPlayer_ignoring_on(state, t) ==
    state.last_shot = NOT_SHOT \/ t > state.last_shot + PLAYER_RESPAWN_DELAY

\* ShouldSpawnPlayer without the wait after the player's death
ShouldSpawnPlayer_no_delay(state, t) == ~state.on

\* the condition of player_spawn_system
ShouldSpawnPlayer(state, t) ==
    /\ ~state.on
    /\ state.last_shot = NOT_SHOT \/ t > state.last_shot + PLAYER_RESPAWN_DELAY

\* Vec3::new(0.0, bottom + PLAYER_SIZE.1 / 2.0 * SPRITE_SCALE, 10.0)
PlayerSpawnPos ==
    LET bottom == -(WinSize.height \div 2)
    IN <<0, bottom + (Px(PLAYER_SIZE[2]) \div 2) \div SPRITE_SCALE_INV>>

NewPlayer ==
    Entity(PlayerSpawnPos[1], PlayerSpawnPos[2], 0, 0, "Wrap", PLAYER_SIZE,
           SPRITE_SCALE_INV, 6, 6, 6)

player_spawn_system ==
    /\ Runnable("player_spawn_system")
    /\ IF ShouldSpawnPlayer(player_state, now)
       THEN /\ Free("Player", {}) # {}
            /\ Done("player_spawn_system",
                    <<Spawn(<<"Player", Min(Free("Player", {}))>>, NewPlayer)>>)
            /\ player_state' = spawned
       ELSE /\ Done("player_spawn_system", <<>>)
            /\ UNCHANGED player_state
    /\ UNCHANGED <<store, enemy_count, score, sprite, overflowed, Clock>>

\* FormationMaker::make(&win_size): the formations of the model.  On the
\* first an enemy overlaps the player's fire and its fire overlaps the
\* player, and its angle advances at a distance of several steps from the
\* target; on the second nothing of the player's reaches it, and its angle
\* advances only when it stands on the target
NearFormation == Formation(<<-8, -40>>, <<0, -40>>, <<4, 4>>, 0, 100)
FarFormation == Formation(<<-3, -159>>, <<0, -160>>, <<1, 1>>, 0, 20)
Formations == {NearFormation, FarFormation}

\* the SpriteSheetBundle at formation.start, with Enemy and the formation
NewEnemy(formation) ==
    [Entity(formation.start[1], formation.start[2], 0, 0, "None", ENEMY_SIZE,
            SPRITE_SCALE_INV, 0, 0, 7)
       EXCEPT !.formation = formation]

\* BelowEnemyMax with <= for <
BelowEnemyMax_or_at(count) ==
    count = U32(ENEMY_MAX) \/ u32_lt(count, U32(ENEMY_MAX))

\* the condition of enemy_spawn_system
BelowEnemyMax(count) == u32_lt(count, U32(ENEMY_MAX))

enemy_spawn_system ==
    /\ Runnable("enemy_spawn_system")
    /\ IF BelowEnemyMax(enemy_count)
       THEN /\ Free("Enemy", {}) # {}
            /\ \E formation \in Formations :
                 Done("enemy_spawn_system",
                      <<Spawn(<<"Enemy", Min(Free("Enemy", {}))>>,
                              NewEnemy(formation))>>)
            /\ enemy_count' = wrapping_inc(enemy_count)
       ELSE /\ Done("enemy_spawn_system", <<>>)
            /\ UNCHANGED enemy_count
    /\ UNCHANGED <<store, player_state, score, sprite, overflowed, Clock>>

\* NewEnemyFire with the velocity of the player's fire
NewEnemyFire_upward(tf) ==
    Entity(tf.x, tf.y, 0, 1, "Despawn", ENEMY_FIRE_SIZE, SPRITE_SCALE_INV,
           0, 0, 2)

\* the bundle of enemy_fire_system, at an enemy's translation
NewEnemyFire(tf) ==
    Entity(tf.x, tf.y, 0, -1, "Despawn", ENEMY_FIRE_SIZE, SPRITE_SCALE_INV,
           0, 0, 2)

\* one fire per enemy of the query, at the enemy's translation
enemy_fire_system ==
    LET enemies == Query("Enemy")
        ids == Fresh("EnemyFire", {}, Len(enemies))
    IN /\ Runnable("enemy_fire_system")
       /\ Len(ids) = Len(enemies)
       /\ Done("enemy_fire_system",
               [i \in 1..Len(enemies) |->
                   Spawn(<<"EnemyFire", ids[i]>>, NewEnemyFire(store[enemies[i]]))])
       /\ UNCHANGED <<store, enemy_count, player_state, score, sprite,
                      overflowed, Clock>>

NewPlayerFire(tf) ==
    Entity(tf.x, tf.y, 0, 1, "Despawn", PLAYER_FIRE_SIZE, 1, 0, 0, 2)

\* player_fire_system firing while the key is down
player_fire_system_held ==
    LET players == Query("Player")
    IN /\ Runnable("player_fire_system")
       /\ IF Len(players) = 1 /\ kb.held
          THEN /\ Free("PlayerFire", {}) # {}
               /\ Done("player_fire_system",
                       <<Spawn(<<"PlayerFire", Min(Free("PlayerFire", {}))>>,
                               NewPlayerFire(store[players[1]]))>>)
          ELSE Done("player_fire_system", <<>>)
       /\ UNCHANGED <<store, enemy_count, player_state, score, sprite,
                      overflowed, Clock>>

\* player_fire_system without the test of query.get_single()
player_fire_system_unguarded ==
    /\ Runnable("player_fire_system")
    /\ IF kb.space
       THEN /\ Free("PlayerFire", {}) # {}
            /\ Done("player_fire_system",
                    <<Spawn(<<"PlayerFire", Min(Free("PlayerFire", {}))>>,
                            NewPlayerFire(NewPlayer))>>)
       ELSE Done("player_fire_system", <<>>)
    /\ UNCHANGED <<store, enemy_count, player_state, score, sprite,
                   overflowed, Clock>>

\* query.get_single() is Ok only for exactly one player
player_fire_system ==
    LET players == Query("Player")
    IN /\ Runnable("player_fire_system")
       /\ IF Len(players) = 1 /\ kb.space
          THEN /\ Free("PlayerFire", {}) # {}
               /\ Done("player_fire_system",
                       <<Spawn(<<"PlayerFire", Min(Free("PlayerFire", {}))>>,
                               NewPlayerFire(store[players[1]]))>>)
          ELSE Done("player_fire_system", <<>>)
       /\ UNCHANGED <<store, enemy_count, player_state, score, sprite,
                      overflowed, Clock>>

\* the PlayerSprite and the velocity the keys of the frame ask for
KeyboardEvent(direction) ==
    IF kb.left THEN [direction |-> "Left", state |-> "Walking", vx |-> -1]
    ELSE IF kb.right THEN [direction |-> "Right", state |-> "Walking", vx |-> 1]
    ELSE [direction |-> direction, state |-> "Idle", vx |-> 0]

player_keyboard_event_system ==
    LET players == Query("Player")
        ev == KeyboardEvent(sprite.direction)
    IN /\ Runnable("player_keyboard_event_system")
       /\ IF Len(players) = 1
          THEN /\ sprite' = [state |-> ev.state, direction |-> ev.direction]
               /\ store' = [store EXCEPT ![players[1]] =
                              [@ EXCEPT !.vx = ev.vx,
                                        !.sx = IF ev.direction = "Left"
                                               THEN -1 ELSE 1]]
          ELSE UNCHANGED <<store, sprite>>
       /\ Done("player_keyboard_event_system", <<>>)
       /\ UNCHANGED <<enemy_count, player_state, score, overflowed, Clock>>

\* the range player_animate chooses for a PlayerAnimation
PlayerRange(state) == IF state = "Idle" THEN <<6, 6>> ELSE <<0, 3>>

player_animate ==
    LET players == Query("Player")
        range == PlayerRange(sprite.state)
    IN /\ Runnable("player_animate")
       /\ IF Len(players) = 1
          THEN store' = [store EXCEPT ![players[1]] =
                           [@ EXCEPT !.lo = range[1], !.hi = range[2]]]
          ELSE UNCHANGED store
       /\ Done("player_animate", <<>>)
       /\ UNCHANGED <<enemy_count, player_state, score, sprite, overflowed,
                      Clock>>

----------------------------------------------------------------------------
(* Movement and lifecycle.                                                 *)

Left == -(WinSize.width \div 2) - Px(MARGIN)
Right == WinSize.width \div 2 + Px(MARGIN)
Top == WinSize.height \div 2 + Px(MARGIN)
Bottom == -(WinSize.height \div 2) - Px(MARGIN)

\* the four tests of movable_system, named as the code names them
left_of_screen(x) == x < Left
right_of_screen(x) == x > Right
top_of_screen(y) == y < -(WinSize.height \div 2) - Px(MARGIN)
bottom_of_screen(y) == y > WinSize.height \div 2 + Px(MARGIN)

\* translation += velocity * TIME_STEP * BASE_SPEED
Advance(e) == [e EXCEPT !.x = @ + e.vx * MoveDist, !.y = @ + e.vy * MoveDist]

OutsideWindow(e) ==
    \/ left_of_screen(e.x) \/ right_of_screen(e.x)
    \/ top_of_screen(e.y) \/ bottom_of_screen(e.y)

\* the OnOutsideWindow::Wrap arm without its assignments
Wrap_nowhere(e) == e

\* the OnOutsideWindow::Wrap arm
Wrap(e) ==
    [e EXCEPT !.x = IF left_of_screen(e.x) THEN Right
                    ELSE IF right_of_screen(e.x) THEN Left ELSE @,
              !.y = IF top_of_screen(e.y) THEN Bottom
                    ELSE IF bottom_of_screen(e.y) THEN Top ELSE @]

\* one iteration of the loop of movable_system: the entity's new components
MovableStep(e) ==
    LET m == Advance(e)
    IN IF e.exit = "Wrap" THEN Wrap(m) ELSE m

\* DespawnsOutside with the two tests of x alone
DespawnsOutside_sideways(e) ==
    LET m == Advance(e)
    IN e.exit = "Despawn" /\ (left_of_screen(m.x) \/ right_of_screen(m.x))

\* DespawnsOutside that lets every entity stay
DespawnsOutside_never(e) == FALSE

\* the arm OnOutsideWindow::Despawn
DespawnsOutside(e) == e.exit = "Despawn" /\ OutsideWindow(Advance(e))

\* entities with Velocity, Transform and Movable
Movables == Query("Player") \o Query("PlayerFire") \o Query("EnemyFire")

movable_system ==
    LET gone == SelectSeq(Movables, LAMBDA id : DespawnsOutside(store[id]))
    IN /\ Runnable("movable_system")
       /\ store' = [id \in DOMAIN store |->
                       IF store[id].exit # "None" THEN MovableStep(store[id])
                       ELSE store[id]]
       /\ Done("movable_system", [i \in 1..Len(gone) |-> Despawn(gone[i])])
       /\ UNCHANGED <<enemy_count, player_state, score, sprite, overflowed,
                      Clock>>

----------------------------------------------------------------------------
(* The enemies' flight.  f32 arithmetic is modelled on the integer grid:   *)
(* angles are whole degrees, sines are thousandths, and a step towards the *)
(* target is rounded towards the place the enemy leaves.                   *)

Abs(n) == IF n < 0 THEN -n ELSE n

\* n / d, rounded to the nearest integer
Round(n, d) == (2 * n + d) \div (2 * d)

\* PI * PI, in hundredths
PI_SQUARED == 987

\* f32::sin and f32::cos of an angle in degrees, in thousandths
\* (Bhaskara's rational approximation on each half turn)
sin(angle) ==
    LET a == angle % 360
        h == IF a <= 180 THEN a ELSE a - 180
        p == h * (180 - h)
        v == (4000 * p) \div (40500 - p)
    IN IF a <= 180 THEN v ELSE -v
cos(angle) == sin(angle + 90)

\* let max_distance = TIME_STEP * formation.speed
max_distance(formation) == Px(formation.speed) \div TIME_STEP_INV

\* dir * formation.speed * TIME_STEP / (x_radius.min(y_radius) * PI / 2.0),
\* in degrees
AngleStep(formation) ==
    LET dir == IF formation.start[1] < 0 THEN 1 ELSE -1
        x_radius == formation.radius[1]
        y_radius == formation.radius[2]
        min == IF x_radius < y_radius THEN x_radius ELSE y_radius
    IN dir * ((max_distance(formation) * 360 * 100) \div (min * PI_SQUARED))

\* (x_dst, y_dst): the point of the ellipse at an angle
Target(formation, angle) ==
    <<Round(formation.radius[1] * cos(angle), 1000) + formation.pivot[1],
      Round(formation.radius[2] * sin(angle), 1000) + formation.pivot[2]>>

\* Toward with a full step along each axis
Toward_each_axis(d, squared, max) == IF d = 0 THEN 0 ELSE max

\* |d * distance_ratio| with distance_ratio = max / distance (0 for a
\* distance of 0), rounded down; squared is the square of the distance
Toward(d, squared, max) ==
    IF squared = 0 THEN 0
    ELSE CHOOSE s \in 0..(max * max) :
           /\ s * s * squared <= d * d * max * max
           /\ (s + 1) * (s + 1) * squared > d * d * max * max

\* WithinThreshold at any distance
WithinThreshold_anywhere(formation, squared) == TRUE

\* WithinThreshold at no distance
WithinThreshold_nowhere(formation, squared) == FALSE

\* distance < max_distance * formation.speed / 20.0, on squares
WithinThreshold(formation, squared) ==
    400 * squared < (max_distance(formation) * formation.speed)
                    * (max_distance(formation) * formation.speed)

\* one iteration of the loop of enemy_movement_system: the enemy's new
\* Transform and Formation
FormationStep(e) ==
    LET formation == e.formation
        max == max_distance(formation)
        angle == formation.angle + AngleStep(formation)
        dst == Target(formation, angle)
        dx == e.x - dst[1]
        dy == e.y - dst[2]
        squared == dx * dx + dy * dy
        sx == IF dx > 0 THEN e.x - Toward(dx, squared, max)
              ELSE e.x + Toward(dx, squared, max)
        sy == IF dy > 0 THEN e.y - Toward(dy, squared, max)
              ELSE e.y + Toward(dy, squared, max)
        x == IF dx > 0 THEN (IF sx > dst[1] THEN sx ELSE dst[1])
             ELSE (IF sx < dst[1] THEN sx ELSE dst[1])
        y == IF dy > 0 THEN (IF sy > dst[2] THEN sy ELSE dst[2])
             ELSE (IF sy < dst[2] THEN sy ELSE dst[2])
    IN [e EXCEPT !.formation.angle =
                    IF WithinThreshold(formation, squared) THEN angle ELSE @,
                 !.sx = IF e.x > x THEN -1 ELSE 1,
                 !.x = x,
                 !.y = y]

enemy_movement_system ==
    /\ Runnable("enemy_movement_system")
    /\ store' = [id \in DOMAIN store |->
                    IF id[1] = "Enemy" THEN FormationStep(store[id])
                    ELSE store[id]]
    /\ Done("enemy_movement_system", <<>>)
    /\ UNCHANGED <<enemy_count, player_state, score, sprite, overflowed, Clock>>

----------------------------------------------------------------------------
(* Collision and combat.                                                   *)

ExplosionToSpawn(x, y) == Entity(x, y, 0, 0, "None", <<0, 0>>, 1, 0, 0, 0)

SpawnedIds(q) == {q[i].id : i \in {i \in 1..Len(q) : q[i].op = "spawn"}}

\* Contains of a set that is never filled
Contains_nothing(despawned_entities, entity) == FALSE

\* despawned_entities.contains(&entity)
Contains(despawned_entities, entity) == entity \in despawned_entities

\* HitEnemy without the despawn of the fire
HitEnemy_keeping_fire(acc, fire_entity, enemy_entity) ==
    LET enemy_tf == store[enemy_entity]
        pending == <<"ExplosionToSpawn",
                     Min(Free("ExplosionToSpawn", SpawnedIds(acc.q)))>>
    IN [despawned |-> acc.despawned \cup {enemy_entity, fire_entity},
        q |-> acc.q \o <<Despawn(enemy_entity),
                         Spawn(pending, ExplosionToSpawn(enemy_tf.x, enemy_tf.y))>>,
        count |-> wrapping_dec(acc.count),
        overflowed |-> acc.overflowed \/ acc.count = U32(0),
        score |-> saturating_add(acc.score),
        hits |-> Append(acc.hits, <<fire_entity, enemy_entity>>)]

\* HitEnemy without enemy_count.0 -= 1
HitEnemy_keeping_count(acc, fire_entity, enemy_entity) ==
    LET enemy_tf == store[enemy_entity]
        pending == <<"ExplosionToSpawn",
                     Min(Free("ExplosionToSpawn", SpawnedIds(acc.q)))>>
    IN [despawned |-> acc.despawned \cup {enemy_entity, fire_entity},
        q |-> acc.q \o <<Despawn(enemy_entity), Despawn(fire_entity),
                         Spawn(pending, ExplosionToSpawn(enemy_tf.x, enemy_tf.y))>>,
        count |-> acc.count,
        overflowed |-> acc.overflowed,
        score |-> saturating_add(acc.score),
        hits |-> Append(acc.hits, <<fire_entity, enemy_entity>>)]

\* the body of `if collision.is_some()` in player_fire_hit_enemy_system;
\* enemy_count.0 -= 1 is unchecked: below zero a debug build panics and a
\* release build wraps, and the model wraps and raises overflowed
HitEnemy(acc, fire_entity, enemy_entity) ==
    LET enemy_tf == store[enemy_entity]
        pending == <<"ExplosionToSpawn",
                     Min(Free("ExplosionToSpawn", SpawnedIds(acc.q)))>>
    IN [despawned |-> acc.despawned \cup {enemy_entity, fire_entity},
        q |-> acc.q \o <<Despawn(enemy_entity), Despawn(fire_entity),
                         Spawn(pending, ExplosionToSpawn(enemy_tf.x, enemy_tf.y))>>,
        count |-> wrapping_dec(acc.count),
        overflowed |-> acc.overflowed \/ acc.count = U32(0),
        score |-> saturating_add(acc.score),
        hits |-> Append(acc.hits, <<fire_entity, enemy_entity>>)]

\* the inner loop, over enemy_query.iter(), from its j-th entity on
RECURSIVE EnemyLoop(_, _, _, _)
EnemyLoop(acc, fire_entity, enemies, j) ==
    IF j > Len(enemies) THEN acc
    ELSE IF \/ Contains(acc.despawned, enemies[j])
            \/ Contains(acc.despawned, fire_entity)
         THEN EnemyLoop(acc, fire_entity, enemies, j + 1)
         ELSE IF Collides(store[fire_entity], store[enemies[j]])
              THEN EnemyLoop(HitEnemy(acc, fire_entity, enemies[j]),
                             fire_entity, enemies, j + 1)
              ELSE EnemyLoop(acc, fire_entity, enemies, j + 1)

\* the outer loop, over fire_query.iter(), from its i-th entity on
RECURSIVE FireLoop(_, _, _, _)
FireLoop(acc, fires, enemies, i) ==
    IF i > Len(fires) THEN acc
    ELSE IF Contains(acc.despawned, fires[i])
         THEN FireLoop(acc, fires, enemies, i + 1)
         ELSE FireLoop(EnemyLoop(acc, fires[i], enemies, 1), fires, enemies, i + 1)

\* one pass of player_fire_hit_enemy_system over the store
FireHitEnemyPass ==
    FireLoop([despawned |-> {}, q |-> <<>>, count |-> enemy_count,
              overflowed |-> overflowed, score |-> score, hits |-> <<>>],
             Query("PlayerFire"), Query("Enemy"), 1)

player_fire_hit_enemy_system ==
    LET pass == FireHitEnemyPass
    IN /\ Runnable("player_fire_hit_enemy_system")
       /\ Cardinality(Free("ExplosionToSpawn", {})) >= Len(pass.hits)
       /\ Done("player_fire_hit_enemy_system", pass.q)
       /\ enemy_count' = pass.count
       /\ overflowed' = pass.overflowed
       /\ score' = pass.score
       /\ UNCHANGED <<store, player_state, sprite, Clock>>

\* Break of a loop without the `break`
Break_never(acc) == FALSE

\* the loop has ended when the `break` after a hit was taken
Break(acc) == acc.hit

\* the body of `if collision.is_some()` in enemy_fire_hit_player_system
HitPlayer(acc, fire_entity, player_entity) ==
    LET player_tf == store[player_entity]
        pending == <<"ExplosionToSpawn",
                     Min(Free("ExplosionToSpawn", SpawnedIds(acc.q)))>>
    IN [q |-> acc.q \o <<Despawn(player_entity), Despawn(fire_entity),
                         Spawn(pending, ExplosionToSpawn(player_tf.x, player_tf.y))>>,
        state |-> shot(now),
        score |-> saturating_sub(acc.score),
        hit |-> TRUE]

\* the loop over fire_query.iter(), from its i-th entity on
RECURSIVE PlayerLoop(_, _, _, _)
PlayerLoop(acc, fires, player_entity, i) ==
    IF i > Len(fires) \/ Break(acc) THEN acc
    ELSE IF Collides(store[fires[i]], store[player_entity])
         THEN PlayerLoop(HitPlayer(acc, fires[i], player_entity),
                         fires, player_entity, i + 1)
         ELSE PlayerLoop(acc, fires, player_entity, i + 1)

\* one pass of enemy_fire_hit_player_system; get_single() is Ok only for
\* exactly one player
FireHitPlayerPass ==
    LET players == Query("Player")
        none == [q |-> <<>>, state |-> player_state, score |-> score,
                 hit |-> FALSE]
    IN IF Len(players) = 1
       THEN PlayerLoop(none, Query("EnemyFire"), players[1], 1)
       ELSE none

enemy_fire_hit_player_system ==
    LET pass == FireHitPlayerPass
    IN /\ Runnable("enemy_fire_hit_player_system")
       /\ Done("enemy_fire_hit_player_system", pass.q)
       /\ player_state' = pass.state
       /\ score' = pass.score
       /\ UNCHANGED <<store, enemy_count, sprite, overflowed, Clock>>

----------------------------------------------------------------------------
(* Animation.                                                              *)

\* Timer::from_seconds(0.5, true) of Animate::default
ANIMATE_PERIOD == Seconds(1) \div 2

\* Timer::tick of a repeating timer
Tick(e, dt) ==
    LET elapsed == e.timer + dt
    IN [e EXCEPT !.finished = elapsed >= ANIMATE_PERIOD,
                 !.timer = elapsed % ANIMATE_PERIOD]

\* the index after the body of `if animate.timer.finished()`
NextIndex(index, lo, hi) ==
    LET i == index + 1
        j == IF i < lo THEN lo ELSE i
    IN IF j > hi THEN lo ELSE j

\* one iteration of the loop of animate_system
AnimateStep(e, dt) ==
    LET t == Tick(e, dt)
    IN IF t.finished
       THEN [t EXCEPT !.index = NextIndex(e.index, e.lo, e.hi)]
       ELSE t

\* entities with Animate and TextureAtlasSprite
Animated == Live("Player") \cup Live("Enemy") \cup Live("PlayerFire")
            \cup Live("EnemyFire")

animate_system ==
    /\ Runnable("animate_system")
    /\ store' = [id \in DOMAIN store |->
                    IF id \in Animated THEN AnimateStep(store[id], delta)
                    ELSE store[id]]
    /\ Done("animate_system", <<>>)
    /\ UNCHANGED <<enemy_count, player_state, score, sprite, overflowed, Clock>>

----------------------------------------------------------------------------
(* Explosions.                                                             *)

\* Timer::from_seconds(0.1, true) of ExplosionTimer::default
EXPLOSION_PERIOD == Seconds(1) \div 10

\* the SpriteSheetBundle at explosion_to_spawn.0 with Explosion and
\* ExplosionTimer::default(): sprite index 0, timer not started
NewExplosion(at) == Entity(at.x, at.y, 0, 0, "None", <<0, 0>>, 1, 0, 0, 0)

\* explosion_to_spawn_system without the despawn of the pending entity
explosion_to_spawn_system_keeping ==
    LET pending == Query("ExplosionToSpawn")
        ids == Fresh("Explosion", {}, Len(pending))
    IN /\ Runnable("explosion_to_spawn_system")
       /\ Len(ids) = Len(pending)
       /\ Done("explosion_to_spawn_system",
               [k \in 1..Len(pending) |->
                   Spawn(<<"Explosion", ids[k]>>, NewExplosion(store[pending[k]]))])
       /\ UNCHANGED <<store, enemy_count, player_state, score, sprite,
                      overflowed, Clock>>

\* per ExplosionToSpawn of the query: the explosion's spawn, then the despawn
\* of the pending entity
explosion_to_spawn_system ==
    LET pending == Query("ExplosionToSpawn")
        ids == Fresh("Explosion", {}, Len(pending))
    IN /\ Runnable("explosion_to_spawn_system")
       /\ Len(ids) = Len(pending)
       /\ Done("explosion_to_spawn_system",
               [k \in 1..(2 * Len(pending)) |->
                   IF k % 2 = 1
                   THEN Spawn(<<"Explosion", ids[(k + 1) \div 2]>>,
                              NewExplosion(store[pending[(k + 1) \div 2]]))
                   ELSE Despawn(pending[k \div 2])])
       /\ UNCHANGED <<store, enemy_count, player_state, score, sprite,
                      overflowed, Clock>>

\* timer.0.tick(time.delta()) of the repeating ExplosionTimer
ExplosionTick(e, dt) ==
    LET elapsed == e.timer + dt
    IN [e EXCEPT !.finished = elapsed >= EXPLOSION_PERIOD,
                 !.timer = elapsed % EXPLOSION_PERIOD]

\* one iteration of the loop of explosion_animation_system: the components
\* it writes
ExplosionStep(e, dt) ==
    LET t == ExplosionTick(e, dt)
    IN IF t.finished THEN [t EXCEPT !.index = e.index + 1] ELSE t

\* ExplosionEnds one sprite too early
ExplosionEnds_early(e, dt) ==
    LET t == ExplosionStep(e, dt)
    IN t.finished /\ t.index >= EXPLOSION_LEN - 1

\* the iteration ends with commands.entity(entity).despawn()
ExplosionEnds(e, dt) ==
    LET t == ExplosionStep(e, dt)
    IN t.finished /\ t.index >= EXPLOSION_LEN

explosion_animation_system ==
    LET gone == SelectSeq(Query("Explosion"),
                          LAMBDA id : ExplosionEnds(store[id], delta))
    IN /\ Runnable("explosion_animation_system")
       /\ store' = [id \in DOMAIN store |->
                       IF id[1] = "Explosion" THEN ExplosionStep(store[id], delta)
                       ELSE store[id]]
       /\ Done("explosion_animation_system",
               [i \in 1..Len(gone) |-> Despawn(gone[i])])
       /\ UNCHANGED <<enemy_count, player_state, score, sprite, overflowed,
                      Clock>>

----------------------------------------------------------------------------
(* Frames.                                                                 *)

EmptyStore == [id \in {} |-> 0]

\* the command queues applied to the store: despawns remove, spawns insert
\* under the id reserved when the command was issued
ApplyBuffers ==
    LET gone == {c.id : c \in {c \in AllCmds : c.op = "despawn"}}
        new == {c \in AllCmds : c.op = "spawn"}
        kept == DOMAIN store \ gone
    IN [id \in kept \cup {c.id : c \in new} |->
           IF id \in kept THEN store[id]
           ELSE (CHOOSE c \in new : c.id = id).ent]

\* FixedTimestep: the accumulator holds a step
StepDue(systems, s, acc, step) == s \in systems /\ acc >= step

\* the stage has run every system that was due: their buffers are applied
EndPass ==
    /\ due # {}
    /\ ran = due
    /\ store' = ApplyBuffers
    /\ cmds' = NoCmds
    /\ due' = {}
    /\ ran' = {}
    /\ UNCHANGED <<enemy_count, player_state, score, sprite, now, delta, pacc,
                   eacc, kb, presses, gates, overflowed>>

\* a further pass of the stage's loop: the FixedTimestep criteria that said
\* YesAndCheckAgain are asked again, and one of them says yes
LoopAgain(systems) ==
    LET p == StepDue(systems, "player_spawn_system", pacc, PLAYER_SPAWN_STEP)
        e == StepDue(systems, "enemy_spawn_system", eacc, ENEMY_SPAWN_STEP)
    IN /\ due = {}
       /\ p \/ e
       /\ due' = (IF p THEN {"player_spawn_system"} ELSE {})
                 \cup (IF e THEN {"enemy_spawn_system"} ELSE {})
       /\ pacc' = IF p THEN pacc - PLAYER_SPAWN_STEP ELSE pacc
       /\ eacc' = IF e THEN eacc - ENEMY_SPAWN_STEP ELSE eacc
       /\ UNCHANGED <<store, cmds, ran, enemy_count, player_state, score,
                      sprite, now, delta, kb, presses, gates, overflowed>>

\* the next frame begins: the clock advances by one of `frames`, the input
\* is read and the run criteria are evaluated
NextFrame(systems, keys, frames, until) ==
    /\ due = {}
    /\ ~StepDue(systems, "player_spawn_system", pacc, PLAYER_SPAWN_STEP)
    /\ ~StepDue(systems, "enemy_spawn_system", eacc, ENEMY_SPAWN_STEP)
    /\ \E d \in frames, k \in keys, gate \in BOOLEAN :
         LET p1 == IF "player_spawn_system" \in systems THEN pacc + d ELSE pacc
             e1 == IF "enemy_spawn_system" \in systems THEN eacc + d ELSE eacc
             p == StepDue(systems, "player_spawn_system", p1, PLAYER_SPAWN_STEP)
             e == StepDue(systems, "enemy_spawn_system", e1, ENEMY_SPAWN_STEP)
         IN /\ now + d <= until
            /\ k.space => presses > 0
            /\ gate => gates > 0 /\ "enemy_fire_system" \in systems
            /\ now' = now + d
            /\ delta' = d
            /\ kb' = k
            /\ presses' = IF k.space THEN presses - 1 ELSE presses
            /\ gates' = IF gate THEN gates - 1 ELSE gates
            /\ pacc' = IF p THEN p1 - PLAYER_SPAWN_STEP ELSE p1
            /\ eacc' = IF e THEN e1 - ENEMY_SPAWN_STEP ELSE e1
            /\ due' = (systems \ Gated)
                      \cup (IF p THEN {"player_spawn_system"} ELSE {})
                      \cup (IF e THEN {"enemy_spawn_system"} ELSE {})
                      \cup (IF gate THEN {"enemy_fire_system"} ELSE {})
    /\ UNCHANGED <<store, cmds, ran, enemy_count, player_state, score, sprite,
                   overflowed>>

\* frames of half a second and of a second
LongFrames == {Seconds(1) \div 2, Seconds(1)}
\* frames of a twentieth of a second and more
ShortFrames == 1..MaxDelta

HalfSeconds(n) == (Seconds(1) \div 2) * n

\* space is just_pressed(Space), held is pressed(Space), left and right are
\* pressed(Left) and pressed(Right)
NoKeys == [space |-> FALSE, left |-> FALSE, right |-> FALSE, held |-> FALSE]

Init ==
    /\ store = EmptyStore
    /\ cmds = NoCmds
    /\ enemy_count = U32(0)
    /\ player_state = [on |-> FALSE, last_shot |-> NOT_SHOT]
    /\ score = U32(0)
    /\ sprite = [state |-> "Idle", direction |-> "Left"]
    /\ now = 0
    /\ delta = 0
    /\ pacc = 0
    /\ eacc = 0
    /\ due = {}
    /\ ran = {}
    /\ kb = NoKeys
    /\ presses = MaxPresses
    /\ gates = MaxGates
    /\ overflowed = FALSE

----------------------------------------------------------------------------
(* The player's fire against the enemies: the game with the enemy-fire     *)
(* gate shut and the arrow keys untouched.                                 *)

AttackSystems == {"player_spawn_system", "player_fire_system",
                  "enemy_spawn_system", "enemy_movement_system",
                  "movable_system", "player_fire_hit_enemy_system"}

FireKey == {[NoKeys EXCEPT !.space = b] : b \in BOOLEAN}

Frame == NextFrame(AttackSystems, FireKey, LongFrames, HalfSeconds(AttackTime))
Loop == LoopAgain(AttackSystems)

Next ==
    \/ player_spawn_system
    \/ player_fire_system
    \/ enemy_spawn_system
    \/ enemy_movement_system
    \/ movable_system
    \/ player_fire_hit_enemy_system
    \/ EndPass
    \/ Loop
    \/ Frame

Spec == Init /\ [][Next]_vars

----------------------------------------------------------------------------
(* The enemies' fire against the player: the game with the fire key and    *)
(* the arrow keys untouched.                                               *)

DefenceSystems == {"player_spawn_system", "enemy_spawn_system",
                   "enemy_fire_system", "enemy_movement_system",
                   "movable_system", "enemy_fire_hit_player_system"}

DefenceFrame == NextFrame(DefenceSystems, {NoKeys}, LongFrames, HalfSeconds(DefenceTime))
DefenceLoop == LoopAgain(DefenceSystems)

DefenceNext ==
    \/ player_spawn_system
    \/ enemy_spawn_system
    \/ enemy_fire_system
    \/ enemy_movement_system
    \/ movable_system
    \/ enemy_fire_hit_player_system
    \/ EndPass
    \/ DefenceLoop
    \/ DefenceFrame

SpecDefence == Init /\ [][DefenceNext]_vars

----------------------------------------------------------------------------
(* The player's death and respawn: the defence without the two movement    *)
(* systems, so that an enemy's fire stays where it was spawned.            *)

RespawnSystems == {"player_spawn_system", "enemy_spawn_system",
                   "enemy_fire_system", "enemy_fire_hit_player_system"}

RespawnFrame ==
    NextFrame(RespawnSystems, {NoKeys}, LongFrames, HalfSeconds(RespawnTime))
RespawnLoop == LoopAgain(RespawnSystems)

RespawnNext ==
    \/ player_spawn_system
    \/ enemy_spawn_system
    \/ enemy_fire_system
    \/ enemy_fire_hit_player_system
    \/ EndPass
    \/ RespawnLoop
    \/ RespawnFrame

\* the app's loop runs frame after frame, and a stage runs every system
\* that is due
SpecRespawn == Init /\ [][RespawnNext]_vars /\ WF_vars(RespawnNext)

----------------------------------------------------------------------------
(* The battle: the two collision systems and the two movement systems,     *)
(* from the frame boundary at which the player, ENEMY_MAX enemies over it, *)
(* their first fires and two fires of the player are live and no key or    *)
(* gate is left, with the score anywhere in its range.  The enemies were   *)
(* spawned a second, that is two frames, after one another.                *)

BattleSystems == {"enemy_movement_system", "movable_system",
                  "player_fire_hit_enemy_system",
                  "enemy_fire_hit_player_system"}

\* the earliest frame boundary with that store (half seconds)
BattleStart == 5

\* the ticks the enemy spawned last has flown
BattleFlight == 1

\* an enemy after n ticks of enemy_movement_system
RECURSIVE Flown(_, _)
Flown(e, n) == IF n = 0 THEN e ELSE Flown(FormationStep(e), n - 1)

\* scores next to both ends of u32 and next to the carry between the limbs
Scores == {U32(0), U32(1), U32(Limb - 1), U32(Limb),
           <<Limb - 1, Limb - 2>>, U32_MAX}

BattleStore ==
    LET enemy(n) == Flown(NewEnemy(NearFormation),
                          BattleFlight + 2 * (ENEMY_MAX - n))
        fire == NewPlayerFire(NewPlayer)
    IN [id \in ({"Enemy", "EnemyFire", "PlayerFire"} \X (1..ENEMY_MAX))
                 \cup {<<"Player", 1>>} |->
           CASE id[1] = "Enemy" -> enemy(id[2])
             [] id[1] = "EnemyFire" -> NewEnemyFire(enemy(id[2]))
             [] id[1] = "Player" -> NewPlayer
             [] id = <<"PlayerFire", 1>> -> Advance(fire)
             [] OTHER -> fire]

BattleInit ==
    /\ store = BattleStore
    /\ cmds = NoCmds
    /\ enemy_count = U32(ENEMY_MAX)
    /\ player_state = spawned
    /\ score \in Scores
    /\ sprite = [state |-> "Idle", direction |-> "Left"]
    /\ now = HalfSeconds(BattleStart)
    /\ delta = HalfSeconds(1)
    /\ pacc = 0
    /\ eacc = 0
    /\ due = {}
    /\ ran = {}
    /\ kb = [NoKeys EXCEPT !.space = TRUE]
    /\ presses = 0
    /\ gates = 0
    /\ overflowed = FALSE

BattleFrame ==
    NextFrame(BattleSystems, {NoKeys}, LongFrames,
              HalfSeconds(BattleStart + BattleTime))

BattleNext ==
    \/ enemy_movement_system
    \/ movable_system
    \/ player_fire_hit_enemy_system
    \/ enemy_fire_hit_player_system
    \/ EndPass
    \/ BattleFrame

SpecBattle == BattleInit /\ [][BattleNext]_vars

----------------------------------------------------------------------------
(* The player's walk: the arrow keys move the player across the window.    *)

MoveSystems == {"player_spawn_system", "player_keyboard_event_system",
                "movable_system"}

ArrowKeys == {[NoKeys EXCEPT !.left = l, !.right = r] : l, r \in BOOLEAN}

MoveFrame == NextFrame(MoveSystems, ArrowKeys, LongFrames, HalfSeconds(MoveTime))
MoveLoop == LoopAgain(MoveSystems)

MoveNext ==
    \/ player_spawn_system
    \/ player_keyboard_event_system
    \/ movable_system
    \/ EndPass
    \/ MoveLoop
    \/ MoveFrame

SpecMove == Init /\ [][MoveNext]_vars

----------------------------------------------------------------------------
(* The player's animation, in frames shorter than the period of the        *)
(* Animate timer.                                                          *)

AnimSystems == {"player_spawn_system", "player_keyboard_event_system",
                "player_animate", "animate_system"}

AnimFrame == NextFrame(AnimSystems, ArrowKeys, ShortFrames, HalfSeconds(AnimTime))

AnimNext ==
    \/ player_spawn_system
    \/ player_keyboard_event_system
    \/ player_animate
    \/ animate_system
    \/ EndPass
    \/ AnimFrame

SpecAnim == Init /\ [][AnimNext]_vars

----------------------------------------------------------------------------
(* The explosions: the battle without the enemies' movement and with the   *)
(* two explosion systems, in short frames.                                 *)

ExplosionSystems == {"movable_system", "player_fire_hit_enemy_system",
                     "enemy_fire_hit_player_system",
                     "explosion_to_spawn_system", "explosion_animation_system"}

ExplosionInit ==
    /\ store = BattleStore
    /\ cmds = NoCmds
    /\ enemy_count = U32(ENEMY_MAX)
    /\ player_state = spawned
    /\ score = U32(0)
    /\ sprite = [state |-> "Idle", direction |-> "Left"]
    /\ now = HalfSeconds(BattleStart)
    /\ delta = HalfSeconds(1)
    /\ pacc = 0
    /\ eacc = 0
    /\ due = {}
    /\ ran = {}
    /\ kb = NoKeys
    /\ presses = 0
    /\ gates = 0
    /\ overflowed = FALSE

ExplosionFrame ==
    NextFrame(ExplosionSystems, {NoKeys}, ShortFrames,
              HalfSeconds(BattleStart + ExplosionTime))

ExplosionNext ==
    \/ movable_system
    \/ player_fire_hit_enemy_system
    \/ enemy_fire_hit_player_system
    \/ explosion_to_spawn_system
    \/ explosion_animation_system
    \/ EndPass
    \/ ExplosionFrame

SpecExplosion == ExplosionInit /\ [][ExplosionNext]_vars

----------------------------------------------------------------------------
(* The enemies' flight: enemy_spawn_system and enemy_movement_system in    *)
(* frames that go on until the clock stops.                                *)

FlightSystems == {"enemy_spawn_system", "enemy_movement_system"}

FlightFrame ==
    NextFrame(FlightSystems, {NoKeys}, LongFrames, HalfSeconds(FormationTime))

FlightNext ==
    \/ enemy_spawn_system
    \/ enemy_movement_system
    \/ EndPass
    \/ FlightFrame

\* the app's loop runs frame after frame, and a stage runs every system
\* that is due
SpecFlight == Init /\ [][FlightNext]_vars /\ WF_vars(FlightNext)

----------------------------------------------------------------------------
(* The keys without a player: the three systems of the player that read    *)
(* the keyboard or the PlayerSprite, and enemy_fire_hit_player_system,     *)
(* from the battle's first frame boundary.  The enemies' fire does not     *)
(* move and no player is spawned: the player dies in the first frame and   *)
(* the keys go on.                                                         *)

AbsentSystems == {"player_keyboard_event_system", "player_fire_system",
                  "player_animate", "enemy_fire_hit_player_system"}

\* every state of the fire key and the arrow keys; a key just pressed is
\* down
AllKeys ==
    {k \in [space : BOOLEAN, left : BOOLEAN, right : BOOLEAN, held : BOOLEAN] :
        k.space => k.held}

AbsentInit ==
    /\ store = BattleStore
    /\ cmds = NoCmds
    /\ enemy_count = U32(ENEMY_MAX)
    /\ player_state = spawned
    /\ score = U32(1)
    /\ sprite = [state |-> "Idle", direction |-> "Left"]
    /\ now = HalfSeconds(BattleStart)
    /\ delta = HalfSeconds(1)
    /\ pacc = 0
    /\ eacc = 0
    /\ due = {}
    /\ ran = {}
    /\ kb = NoKeys
    /\ presses = MaxPresses
    /\ gates = 0
    /\ overflowed = FALSE

AbsentFrame ==
    NextFrame(AbsentSystems, AllKeys, LongFrames,
              HalfSeconds(BattleStart + AbsentTime))

AbsentNext ==
    \/ player_keyboard_event_system
    \/ player_fire_system
    \/ player_animate
    \/ enemy_fire_hit_player_system
    \/ EndPass
    \/ AbsentFrame

SpecAbsent == AbsentInit /\ [][AbsentNext]_vars

----------------------------------------------------------------------------
(* The fire key: the player walks and fires; the key is up, just pressed,  *)
(* or held down from an earlier frame.                                     *)

TriggerSystems == {"player_spawn_system", "player_keyboard_event_system",
                "player_fire_system", "movable_system"}

\* the states of the fire key, with the player walking to the right or
\* standing
TriggerKeys == {k \in AllKeys : ~k.left}

TriggerFrame == NextFrame(TriggerSystems, TriggerKeys, LongFrames, HalfSeconds(TriggerTime))
TriggerLoop == LoopAgain(TriggerSystems)

TriggerNext ==
    \/ player_spawn_system
    \/ player_keyboard_event_system
    \/ player_fire_system
    \/ movable_system
    \/ EndPass
    \/ TriggerLoop
    \/ TriggerFrame

SpecTrigger == Init /\ [][TriggerNext]_vars

----------------------------------------------------------------------------
(* The drifting sprite: movable_system alone, on one entity with           *)
(* Movable{Wrap} whose Transform and Velocity are drawn from all that the  *)
(* system's query admits.  The system reads Velocity, Transform and        *)
(* Movable and nothing else of the entity.                                 *)

DriftSystems == {"movable_system"}

\* translations next to each bound and in the middle of the window
DriftCoords(low, high) == {low + DriftInset, 0, high - DriftInset}

\* the entity of the query: (Entity, &Velocity, &mut Transform, &Movable)
Drifter(x, y, vx, vy) ==
    [NewPlayer EXCEPT !.x = x, !.y = y, !.vx = vx, !.vy = vy]

DriftInit ==
    /\ \E x \in DriftCoords(Left, Right), y \in DriftCoords(Bottom, Top),
          vx, vy \in {-1, 0, 1} :
         store = [id \in {<<"Player", 1>>} |-> Drifter(x, y, vx, vy)]
    /\ cmds = NoCmds
    /\ enemy_count = U32(0)
    /\ player_state = spawned
    /\ score = U32(0)
    /\ sprite = [state |-> "Idle", direction |-> "Left"]
    /\ now = 0
    /\ delta = 0
    /\ pacc = 0
    /\ eacc = 0
    /\ due = {}
    /\ ran = {}
    /\ kb = NoKeys
    /\ presses = 0
    /\ gates = 0
    /\ overflowed = FALSE

DriftFrame ==
    NextFrame(DriftSystems, {NoKeys}, LongFrames, HalfSeconds(DriftTime))

DriftNext ==
    \/ movable_system
    \/ EndPass
    \/ DriftFrame

SpecDrift == DriftInit /\ [][DriftNext]_vars

----------------------------------------------------------------------------
(* The fires' way out: the fires in flight, with movable_system and the    *)
(* two collision systems, from one of two stores.  Early in the game the   *)
(* player has fired in two frames running and the first enemy has just     *)
(* been spawned; in the battle every fire has a target.  The frames go on  *)
(* for ever (weak fairness), as the app's loop does.                       *)

FlyoutSystems == {"movable_system", "player_fire_hit_enemy_system",
                  "enemy_fire_hit_player_system"}

\* the frame boundary at which the first enemy appears (half seconds)
EarlyStart == ENEMY_SPAWN_STEP \div PLAYER_SPAWN_STEP

\* the player, its two fires and the enemy spawned in the last pass
EarlyStore ==
    LET fire == NewPlayerFire(NewPlayer)
    IN [id \in {<<"Player", 1>>, <<"Enemy", 1>>, <<"PlayerFire", 1>>,
                <<"PlayerFire", 2>>} |->
           CASE id[1] = "Player" -> NewPlayer
             [] id[1] = "Enemy" -> NewEnemy(NearFormation)
             [] id = <<"PlayerFire", 1>> -> Advance(fire)
             [] OTHER -> fire]

FlyoutInit ==
    /\ \/ /\ store = EarlyStore
          /\ enemy_count = U32(1)
          /\ now = HalfSeconds(EarlyStart)
       \/ /\ store = BattleStore
          /\ enemy_count = U32(ENEMY_MAX)
          /\ now = HalfSeconds(BattleStart)
    /\ cmds = NoCmds
    /\ player_state = spawned
    /\ score = U32(0)
    /\ sprite = [state |-> "Idle", direction |-> "Left"]
    /\ delta = 1
    /\ pacc = 0
    /\ eacc = 0
    /\ due = {}
    /\ ran = {}
    /\ kb = [NoKeys EXCEPT !.space = TRUE]
    /\ presses = 0
    /\ gates = 0
    /\ overflowed = FALSE

FlyoutFrame ==
    NextFrame(FlyoutSystems, {NoKeys}, LongFrames,
              HalfSeconds(BattleStart + FlyoutTime))

FlyoutNext ==
    \/ movable_system
    \/ player_fire_hit_enemy_system
    \/ enemy_fire_hit_player_system
    \/ EndPass
    \/ FlyoutFrame

SpecFlyout == FlyoutInit /\ [][FlyoutNext]_vars /\ WF_vars(FlyoutNext)

----------------------------------------------------------------------------
(* What the properties below speak of.                                     *)

\* system s runs in this step
Runs(s) == s \notin ran /\ s \in ran'

\* the buffers of a pass are applied in this step
Applies == due # {} /\ due' = {}

\* the commands of a queue with one op, as a set of positions
Ops(q, op) == {i \in 1..Len(q) : q[i].op = op}

\* the ids a queue despawns
Despawned(q) == {q[i].id : i \in Ops(q, "despawn")}

\* a + n of a 32-bit number a, its upper limb left to overflow
Sum(a, n) == <<a[1] + (a[2] + n) \div Limb, (a[2] + n) % Limb>>

\* b is a + n as 32-bit numbers, without wrapping
Plus(a, n, b) == b = Sum(a, n) /\ b[1] < Limb

\* a + n, held at the largest 32-bit number
AtMost(a, n) == IF Sum(a, n)[1] >= Limb THEN U32_MAX ELSE Sum(a, n)

\* the overlapping pairs of a player's fire and an enemy
FireOnEnemy ==
    {pair \in Live("PlayerFire") \X Live("Enemy") :
        Collides(store[pair[1]], store[pair[2]])}

\* the enemy fires that overlap the player p
FireOnPlayer(p) ==
    {f \in Live("EnemyFire") : Collides(store[f], store[p])}

\* the queue q spawns one ExplosionToSpawn, at the position of entity e
OnePendingAt(q, e) ==
    /\ Cardinality(Ops(q, "spawn")) = 1
    /\ \A i \in Ops(q, "spawn") :
         /\ q[i].id[1] = "ExplosionToSpawn"
         /\ q[i].ent.x = e.x
         /\ q[i].ent.y = e.y

\* beyond the window and its margin of 50 pixels, on any side
Beyond(e) ==
    \/ e.x < -(WinSize.width \div 2) - Px(50)
    \/ e.x > WinSize.width \div 2 + Px(50)
    \/ e.y < -(WinSize.height \div 2) - Px(50)
    \/ e.y > WinSize.height \div 2 + Px(50)

\* the place of a system in the order spawn, movement, collision, animation
Phase(s) ==
    CASE s \in {"player_spawn_system", "enemy_spawn_system"} -> 1
      [] s \in {"movable_system", "enemy_movement_system"} -> 2
      [] s \in {"player_fire_hit_enemy_system",
                "enemy_fire_hit_player_system"} -> 3
      [] OTHER -> 4

\* the target of an enemy in a tick: the point of its ellipse at the
\* advanced angle
NextTarget(e) == Target(e.formation, e.formation.angle + AngleStep(e.formation))

\* the enemy stands on the target of this tick, or on the point at its angle
OnTarget(e) ==
    \/ <<e.x, e.y>> = NextTarget(e)
    \/ <<e.x, e.y>> = Target(e.formation, e.formation.angle)

\* the square of the distance between two points
Squared(p, q) == (p[1] - q[1]) * (p[1] - q[1]) + (p[2] - q[2]) * (p[2] - q[2])

\* b lies between a and c
Between(a, b, c) == (a <= b /\ b <= c) \/ (c <= b /\ b <= a)

\* the clock leaves room for n more ticks
TicksLeft(n) == now + n * Seconds(1) <= HalfSeconds(FormationTime)

\* how often the angle of an enemy has advanced
Advances(e) == e.formation.angle \div AngleStep(e.formation)

----------------------------------------------------------------------------
(* C1: in every reachable state at most one Player entity is live, the     *)
(* players whose spawn is queued counted with the live ones.               *)
AtMostOnePlayer ==
    Cardinality(Live("Player") \cup {id \in Reserved : id[1] = "Player"}) <= 1

\* a player is live again after a player was shot
PlayerRespawned ==
    /\ Cardinality(Live("Player")) = 1
    /\ Live("ExplosionToSpawn") # {}

(* C2: the live enemies never exceed ENEMY_MAX; enemy_spawn_system queues  *)
(* nothing when the counter is not below ENEMY_MAX and one spawn when it   *)
(* is, it never despawns, and an enemy leaves the store only by a despawn  *)
(* that player_fire_hit_enemy_system queued.                               *)
EnemyCap ==
    /\ [](Cardinality(Live("Enemy")) <= ENEMY_MAX)
    /\ [][/\ Runs("enemy_spawn_system") =>
               LET q == cmds'["enemy_spawn_system"]
                   below == enemy_count[1] = 0 /\ enemy_count[2] < ENEMY_MAX
               IN /\ Ops(q, "despawn") = {}
                  /\ Len(q) = IF below THEN 1 ELSE 0
          /\ \A id \in Live("Enemy") :
               id \notin DOMAIN store' =>
                 id \in Despawned(cmds["player_fire_hit_enemy_system"])]_vars

\* enemy_spawn_system has run and refused, ENEMY_MAX enemies being live
SpawnRefused ==
    /\ Cardinality(Live("Enemy")) = ENEMY_MAX
    /\ enemy_count = U32(ENEMY_MAX)
    /\ "enemy_spawn_system" \in ran
    /\ cmds["enemy_spawn_system"] = <<>>

(* C3: when one fire of the player and one enemy overlap and no other pair *)
(* does, player_fire_hit_enemy_system queues the despawn of both and one   *)
(* ExplosionToSpawn at the enemy's position, takes one from the enemy      *)
(* counter and adds one to the score (saturating); when the buffers are    *)
(* applied both entities are gone and the ExplosionToSpawn is there.       *)
SingleHit ==
    [][/\ \A pair \in FireOnEnemy :
            Runs("player_fire_hit_enemy_system") /\ FireOnEnemy = {pair} =>
              LET q == cmds'["player_fire_hit_enemy_system"]
              IN /\ Len(q) = 3
                 /\ Despawned(q) = {pair[1], pair[2]}
                 /\ OnePendingAt(q, store[pair[2]])
                 /\ Plus(enemy_count', 1, enemy_count)
                 /\ score' = AtMost(score, 1)
       /\ Applies =>
            LET q == cmds["player_fire_hit_enemy_system"]
            IN /\ Despawned(q) \cap DOMAIN store' = {}
               /\ \A i \in Ops(q, "spawn") :
                    /\ q[i].id \in DOMAIN store'
                    /\ store'[q[i].id] = q[i].ent]_vars

\* the system has run on a single overlapping pair and queued one hit
SingleHitQueued ==
    /\ "player_fire_hit_enemy_system" \in ran
    /\ Len(cmds["player_fire_hit_enemy_system"]) = 3
    /\ Cardinality(FireOnEnemy) = 1

(* C4: in one pass of player_fire_hit_enemy_system no entity is despawned  *)
(* twice: each fire hits at most one enemy and each enemy is hit by at     *)
(* most one fire, every hit is an overlapping pair, and the enemy counter  *)
(* and the score move by the number of hits.                               *)
NoDoubleHit ==
    [][Runs("player_fire_hit_enemy_system") =>
         LET q == cmds'["player_fire_hit_enemy_system"]
             d == Ops(q, "despawn")
             n == Cardinality(Ops(q, "spawn"))
         IN /\ \A i, j \in d : q[i].id = q[j].id => i = j
            /\ Len(q) = 3 * n
            /\ \A k \in 1..n :
                 /\ q[3 * k - 2].op = "despawn"
                 /\ q[3 * k - 1].op = "despawn"
                 /\ <<q[3 * k - 1].id, q[3 * k - 2].id>> \in FireOnEnemy
            /\ Plus(enemy_count', n, enemy_count)
            /\ score' = AtMost(score, n)]_vars

\* the system has run on a fire that overlaps two enemies, or on an enemy
\* that two fires overlap, and queued one hit
OneHitOfTwo ==
    /\ "player_fire_hit_enemy_system" \in ran
    /\ Len(cmds["player_fire_hit_enemy_system"]) = 3
    /\ Cardinality(FireOnEnemy) >= 2
    /\ \E a, b \in FireOnEnemy : a # b /\ (a[1] = b[1] \/ a[2] = b[2])

(* C5: a run of enemy_fire_hit_player_system kills the player at most    *)
(* once.  With one live player and an overlapping enemy fire it queues the *)
(* despawn of the player and of the first overlapping fire of the query,   *)
(* and one ExplosionToSpawn at the player's position, and nothing else;    *)
(* it sets PlayerState to off with last_shot the current time and takes    *)
(* one from the score, which stays at 0 when it is 0.  Otherwise it        *)
(* changes nothing.                                                        *)
PlayerHitOnce ==
    [][Runs("enemy_fire_hit_player_system") =>
         LET q == cmds'["enemy_fire_hit_player_system"]
             players == Live("Player")
         IN IF Cardinality(players) = 1
               /\ \E p \in players : FireOnPlayer(p) # {}
            THEN \E p \in players, f \in Live("EnemyFire") :
                   /\ f \in FireOnPlayer(p)
                   /\ \A g \in FireOnPlayer(p) : f[2] <= g[2]
                   /\ Len(q) = 3
                   /\ Despawned(q) = {p, f}
                   /\ OnePendingAt(q, store[p])
                   /\ player_state' = [on |-> FALSE, last_shot |-> now]
                   /\ IF score = U32(0) THEN score' = score
                      ELSE Plus(score', 1, score)
            ELSE /\ q = <<>>
                 /\ UNCHANGED <<player_state, score>>]_vars

\* the system has run with two fires on the player and a score above 0,
\* and queued one hit
PlayerHitByFirst ==
    /\ "enemy_fire_hit_player_system" \in ran
    /\ Len(cmds["enemy_fire_hit_player_system"]) = 3
    /\ \E p \in Live("Player") : Cardinality(FireOnPlayer(p)) >= 2
    /\ player_state = [on |-> FALSE, last_shot |-> now]
    /\ score \notin {U32(0), U32_MAX}

(* C6: the score stays a 32-bit unsigned number and no step wraps it: a   *)
(* step leaves it, adds what player_fire_hit_enemy_system scored or takes  *)
(* one, from 0 it never falls to the largest number and from the largest   *)
(* number it never rises to 0; a hit on the player at score 0 leaves 0,    *)
(* and a hit on an enemy at the largest score leaves the largest score.    *)
ScoreSaturates ==
    /\ [](score \in (0..Limb - 1) \X (0..Limb - 1))
    /\ [][/\ \/ score' = score
             \/ Plus(score', 1, score)
             \/ \E n \in 1..ENEMY_MAX : Plus(score, n, score')
          /\ Runs("enemy_fire_hit_player_system") /\ score = U32(0)
               => score' = U32(0)
          /\ Runs("player_fire_hit_enemy_system") /\ score = U32_MAX
               => score' = U32_MAX]_vars

\* the player has been hit at score 0
HitAtZero ==
    /\ "enemy_fire_hit_player_system" \in ran
    /\ cmds["enemy_fire_hit_player_system"] # <<>>
    /\ "player_fire_hit_enemy_system" \notin ran
    /\ score = U32(0)

(* C7: after the player was shot at time T no Player is live, and none  *)
(* is queued, at any later time up to the respawn; player_spawn_system     *)
(* respawns only at a time after T + PLAYER_RESPAWN_DELAY; and when the    *)
(* frames go on and the clock can pass T + PLAYER_RESPAWN_DELAY, a Player  *)
(* is live again.                                                          *)
RespawnDelay ==
    /\ [](player_state.last_shot # NOT_SHOT /\ now > player_state.last_shot
            => /\ Live("Player") = {}
               /\ \A id \in Reserved : id[1] # "Player")
    /\ [][player_state.last_shot # NOT_SHOT /\ player_state'.last_shot = NOT_SHOT
            => /\ Runs("player_spawn_system")
               /\ now > player_state.last_shot + Seconds(2)]_vars
    /\ (player_state.last_shot # NOT_SHOT
          /\ player_state.last_shot + Seconds(2) < HalfSeconds(RespawnTime))
         ~> (Live("Player") # {} /\ player_state.on)

\* player_spawn_system has run at T + PLAYER_RESPAWN_DELAY and not spawned
StillWaiting ==
    /\ player_state.last_shot # NOT_SHOT
    /\ now = player_state.last_shot + PLAYER_RESPAWN_DELAY
    /\ "player_spawn_system" \in ran
    /\ cmds["player_spawn_system"] = <<>>
    /\ Live("Player") = {}

(* C8: a Despawn entity that movable_system has moved beyond the window    *)
(* and its margin has its despawn queued by that run and is gone when the  *)
(* buffers are applied; one that is within is not despawned by             *)
(* movable_system.                                                         *)
DespawnOutside ==
    [][/\ Runs("movable_system") =>
            \A id \in DOMAIN store :
              store[id].exit = "Despawn" =>
                (Beyond(store'[id])
                   <=> id \in Despawned(cmds'["movable_system"]))
       /\ Applies =>
            Despawned(cmds["movable_system"]) \cap DOMAIN store' = {}]_vars

\* movable_system has run, one fire left the window and another did not
FireLeftWindow ==
    /\ "movable_system" \in ran
    /\ \E a, b \in Live("PlayerFire") :
         /\ a \in Despawned(cmds["movable_system"])
         /\ b \notin Despawned(cmds["movable_system"])

(* C9: in every reachable state both coordinates of every Wrap entity lie  *)
(* within the window and its margin of 50 pixels: x in                     *)
(* [-width/2 - 50, width/2 + 50] and y in [-height/2 - 50, height/2 + 50]. *)
WrapBand ==
    \A id \in DOMAIN store :
      store[id].exit = "Wrap" =>
        /\ -(WinSize.width \div 2) - Px(50) <= store[id].x
        /\ store[id].x <= WinSize.width \div 2 + Px(50)
        /\ -(WinSize.height \div 2) - Px(50) <= store[id].y
        /\ store[id].y <= WinSize.height \div 2 + Px(50)

\* movable_system has put the player, walking right, on the left edge
WrappedToLeft ==
    /\ "movable_system" \in ran
    /\ \E id \in Live("Player") :
         /\ store[id].vx = 1
         /\ store[id].x = -(WinSize.width \div 2) - Px(50)

(* C10: at the end of every tick the sprite index of every entity with an *)
(* Animate component lies within the range of that component, the ticks in *)
(* which player_animate replaces the range included.                       *)
IndexInRange ==
    due = {} =>
      \A id \in Animated :
        store[id].lo <= store[id].index /\ store[id].index <= store[id].hi

PhaseOrder ==
    \A s \in ran, t \in due \ ran : Phase(s) <= Phase(t)

(* C13: in every tick of enemy_movement_system an enemy's new position is  *)
(* within max_distance = TIME_STEP * speed of its previous one; on each    *)
(* axis the new coordinate lies between the old one and the target's; and  *)
(* when the target is at most max_distance away the enemy lands on it.     *)
ContinuousFlight ==
    [][Runs("enemy_movement_system") =>
         \A id \in Live("Enemy") :
           LET e == store[id]
               to == store'[id]
               max == Px(e.formation.speed) \div 60
               dst == NextTarget(e)
           IN /\ Squared(<<e.x, e.y>>, <<to.x, to.y>>) <= max * max
              /\ Between(e.x, to.x, dst[1])
              /\ Between(e.y, to.y, dst[2])
              /\ Squared(<<e.x, e.y>>, dst) <= max * max
                   => <<to.x, to.y>> = dst]_vars

\* an enemy has flown from its start onto the point of its ellipse at its
\* angle
LandedOnTarget ==
    /\ "enemy_movement_system" \in ran
    /\ \E id \in Live("Enemy") :
         /\ store[id].formation.angle # 0
         /\ <<store[id].x, store[id].y>> # store[id].formation.start
         /\ <<store[id].x, store[id].y>>
              = Target(store[id].formation, store[id].formation.angle)

(* C14: a tick of enemy_movement_system changes a formation's angle only   *)
(* if the enemy's distance to the target at the advanced angle was below   *)
(* max_distance * speed / 20 at the start of the tick, and then by one     *)
(* step; in every other tick the angle stays, so the target stays, and the *)
(* enemy comes closer to it.                                               *)
AngleCommit ==
    [][Runs("enemy_movement_system") =>
         \A id \in Live("Enemy") :
           LET e == store[id]
               to == store'[id]
               max == Px(e.formation.speed) \div 60
               dst == NextTarget(e)
               distance == Squared(<<e.x, e.y>>, dst)
               below == 400 * distance
                          < (max * e.formation.speed) * (max * e.formation.speed)
           IN /\ to.formation.angle # e.formation.angle
                   => /\ below
                      /\ to.formation.angle
                           = e.formation.angle + AngleStep(e.formation)
              /\ ~below
                   => /\ to.formation = e.formation
                      /\ NextTarget(to) = dst
                      /\ Squared(<<to.x, to.y>>, dst) < distance]_vars

\* an enemy has left its start and its angle has not advanced yet
FlownUncommitted ==
    /\ "enemy_movement_system" \in ran
    /\ \E id \in Live("Enemy") :
         /\ store[id].formation.angle = 0
         /\ <<store[id].x, store[id].y>> # store[id].formation.start

AbsentPlayer ==
    /\ [][Live("Player") = {} =>
            /\ \A s \in {"enemy_fire_hit_player_system", "player_fire_system",
                         "player_keyboard_event_system", "player_animate"} :
                 Runs(s) => /\ cmds' = cmds
                            /\ store' = store
                            /\ score' = score
                            /\ player_state' = player_state
                            /\ sprite' = sprite
                            /\ overflowed' = overflowed]_vars
    /\ [](Live("Player") = {} =>
            /\ Runnable("enemy_fire_hit_player_system")
                 => ENABLED enemy_fire_hit_player_system
            /\ Runnable("player_fire_system") => ENABLED player_fire_system
            /\ Runnable("player_keyboard_event_system")
                 => ENABLED player_keyboard_event_system
            /\ Runnable("player_animate") => ENABLED player_animate)

\* the four systems have run in a frame without a player, with fire of the
\* enemies live, the fire key just pressed and an arrow key down
AbsentTick ==
    /\ Live("Player") = {}
    /\ Live("EnemyFire") # {}
    /\ kb.space /\ kb.left
    /\ ran = {"enemy_fire_hit_player_system", "player_fire_system",
              "player_keyboard_event_system", "player_animate"}
    /\ cmds = NoCmds

(* C16: every ExplosionToSpawn is consumed in the tick after the one that  *)
(* queued it: a run of explosion_to_spawn_system queues, for each pending  *)
(* entity, one despawn of it and one Explosion at its position, with       *)
(* sprite index 0 and a timer not started, and nothing else; when the      *)
(* buffers of that tick are applied every pending entity that was live is  *)
(* gone and the explosions are live, so no pending entity is converted     *)
(* twice or lives through more than one tick.                              *)
PendingConsumed ==
    [][/\ Runs("explosion_to_spawn_system") =>
            LET q == cmds'["explosion_to_spawn_system"]
                pending == Live("ExplosionToSpawn")
            IN /\ Len(q) = 2 * Cardinality(pending)
               /\ Despawned(q) = pending
               /\ Cardinality(SpawnedIds(q)) = Cardinality(pending)
               /\ \A i \in Ops(q, "spawn") :
                    /\ q[i].id[1] = "Explosion"
                    /\ q[i].id \notin DOMAIN store
                    /\ q[i].ent.index = 0
                    /\ q[i].ent.timer = 0
                    /\ ~q[i].ent.finished
               /\ \A p \in pending :
                    Cardinality({i \in Ops(q, "spawn") :
                                   /\ q[i].ent.x = store[p].x
                                   /\ q[i].ent.y = store[p].y})
                      = Cardinality({o \in pending :
                                       /\ store[o].x = store[p].x
                                       /\ store[o].y = store[p].y})
       /\ Applies =>
            /\ Live("ExplosionToSpawn") \cap DOMAIN store' = {}
            /\ LET q == cmds["explosion_to_spawn_system"]
               IN \A i \in Ops(q, "spawn") :
                    q[i].id \in DOMAIN store' /\ store'[q[i].id] = q[i].ent]_vars

\* explosion_to_spawn_system has run on a pending entity
PendingConverted ==
    /\ "explosion_to_spawn_system" \in ran
    /\ Live("ExplosionToSpawn") # {}
    /\ Len(cmds["explosion_to_spawn_system"]) = 2 * Cardinality(Live("ExplosionToSpawn"))

(* C18: in a tick in which the enemy-fire gate fires, enemy_fire_system    *)
(* queues for every live enemy exactly one fire of the enemies at that     *)
(* enemy's position, with velocity (0, -1) and the Despawn policy, and     *)
(* nothing else, so as many fires as enemies are live; in a tick in which  *)
(* the gate does not fire no fire of the enemies is queued or spawned.     *)
EnemyVolley ==
    /\ [][/\ Runs("enemy_fire_system") =>
               LET q == cmds'["enemy_fire_system"]
                   enemies == Live("Enemy")
               IN /\ Len(q) = Cardinality(enemies)
                  /\ Cardinality(SpawnedIds(q)) = Cardinality(enemies)
                  /\ \A i \in 1..Len(q) :
                       /\ q[i].op = "spawn"
                       /\ q[i].id[1] = "EnemyFire"
                       /\ q[i].id \notin DOMAIN store
                       /\ q[i].ent.vx = 0 /\ q[i].ent.vy = -1
                       /\ q[i].ent.exit = "Despawn"
                  /\ \A e \in enemies :
                       Cardinality({i \in 1..Len(q) :
                                      /\ q[i].ent.x = store[e].x
                                      /\ q[i].ent.y = store[e].y})
                         = Cardinality({o \in enemies :
                                          /\ store[o].x = store[e].x
                                          /\ store[o].y = store[e].y})
          /\ Applies =>
               /\ Live("EnemyFire")' \ Live("EnemyFire")
                    = SpawnedIds(cmds["enemy_fire_system"])
               /\ "enemy_fire_system" \notin due
                    => Live("EnemyFire")' \subseteq Live("EnemyFire")]_vars
    /\ [](\A c \in AllCmds :
            c.op = "spawn" /\ c.id[1] = "EnemyFire"
              => "enemy_fire_system" \in ran)

\* the gate has fired with ENEMY_MAX enemies live, and each has fired
VolleyOfTwo ==
    /\ "enemy_fire_system" \in ran
    /\ Cardinality(Live("Enemy")) = 2
    /\ Len(cmds["enemy_fire_system"]) = 2

(* C19: the player's fire is edge-triggered: a run of player_fire_system   *)
(* with one live player and the fire key just pressed queues exactly one   *)
(* fire of the player at the player's position, with velocity (0, 1) and   *)
(* the Despawn policy; a run with the key not just pressed, held down or   *)
(* not, queues nothing, and so does a run without a player; and nothing    *)
(* but the key limits the rate: a press in each of two successive frames   *)
(* spawns a fire in each.                                                  *)
EdgeTriggeredFire ==
    [][Runs("player_fire_system") =>
         LET q == cmds'["player_fire_system"]
             players == Live("Player")
         IN /\ Cardinality(players) = 1 /\ kb.space =>
                 /\ Len(q) = 1
                 /\ q[1].op = "spawn"
                 /\ q[1].id[1] = "PlayerFire"
                 /\ q[1].id \notin DOMAIN store
                 /\ \A p \in players :
                      q[1].ent.x = store[p].x /\ q[1].ent.y = store[p].y
                 /\ q[1].ent.vx = 0 /\ q[1].ent.vy = 1
                 /\ q[1].ent.exit = "Despawn"
            /\ ~(Cardinality(players) = 1 /\ kb.space) => q = <<>>]_vars

\* the key was just pressed in two successive frames and a fire was spawned
\* in each: the first has moved once, the second is queued away from the
\* place of the player's spawn
FiredTwiceRunning ==
    /\ kb.space
    /\ Len(cmds["player_fire_system"]) = 1
    /\ \E f \in Live("PlayerFire") :
         \E p \in Live("Player") :
           /\ store[f].y = store[p].y + MoveDist
           /\ cmds["player_fire_system"][1].ent.x # PlayerSpawnPos[1]

\* coordinate v carried across the band [low, high]: beyond low it becomes
\* high, beyond high it becomes low, within the band it stays
Across(v, low, high) ==
    IF v < low THEN high ELSE IF v > high THEN low ELSE v

EnemyCountExact ==
    /\ due = {} => /\ enemy_count[1] = 0
                   /\ enemy_count[2] = Cardinality(Live("Enemy"))
    /\ ~overflowed

\* every system of a pass has run, an enemy was hit and another spawned in
\* it, and the counter is back where it was
HitAndSpawnInOnePass ==
    /\ due # {} /\ ran = due
    /\ cmds["enemy_spawn_system"] # <<>>
    /\ cmds["player_fire_hit_enemy_system"] # <<>>
    /\ enemy_count = U32(Cardinality(Live("Enemy")))

(* C22: at every tick boundary PlayerState.on is true exactly when a live  *)
(* Player entity exists; whenever on is true last_shot is the sentinel -1; *)
(* and last_shot differs from -1 only between a death of the player and    *)
(* the respawn that follows: it leaves -1 only when                        *)
(* enemy_fire_hit_player_system despawns the player, and returns to -1     *)
(* only when player_spawn_system spawns one.                               *)
PlayerStateTracksPlayer ==
    /\ [](due = {} => (player_state.on <=> Live("Player") # {}))
    /\ [](player_state.on => player_state.last_shot = -1)
    /\ [][/\ player_state.last_shot = -1 /\ player_state'.last_shot # -1 =>
               /\ Runs("enemy_fire_hit_player_system")
               /\ Despawned(cmds'["enemy_fire_hit_player_system"])
                    \cap Live("Player") # {}
               /\ player_state' = [on |-> FALSE, last_shot |-> now]
          /\ player_state.last_shot # -1 /\ player_state'.last_shot = -1 =>
               /\ Runs("player_spawn_system")
               /\ Ops(cmds'["player_spawn_system"], "spawn") # {}
               /\ player_state'.on]_vars

\* a tick boundary between a death of the player and the respawn
DeadAtBoundary ==
    /\ due = {}
    /\ Live("Player") = {}
    /\ ~player_state.on
    /\ player_state.last_shot >= 0
    /\ now > player_state.last_shot

\* the fires in flight: the entities with the Fire component, of the player
\* or of an enemy, in the stores the fires' way out starts from
Fires == {"PlayerFire", "EnemyFire"} \X (1..ENEMY_MAX)

(* C23: every Fire entity is eventually despawned: while the frames go on  *)
(* and the clock leaves room for the ticks of its flight, a live fire, of  *)
(* the player or of an enemy, comes to be gone from the store; and while   *)
(* it is live its velocity stays (0, 1) or (0, -1) and its exit policy     *)
(* Despawn, so that each tick of movable_system carries it one step on.    *)
FiresLeave ==
    /\ \A id \in Fires :
         (/\ id \in DOMAIN store
          /\ now + FlyoutTicks * Seconds(1)
               <= HalfSeconds(BattleStart + FlyoutTime))
           ~> (id \notin DOMAIN store)
    /\ [](\A id \in Fires \cap DOMAIN store :
            /\ store[id].vx = 0
            /\ store[id].vy = IF id[1] = "PlayerFire" THEN 1 ELSE -1
            /\ store[id].exit = "Despawn")
    /\ [][Runs("movable_system") =>
            \A id \in Fires \cap DOMAIN store :
              store'[id].y = store[id].y + store[id].vy * MoveDist]_vars

\* no fire is left: one of the player and one of an enemy left the window
\* and the others hit their targets
AllFiresGone ==
    /\ due = {}
    /\ Fires \cap DOMAIN store = {}
    /\ Live("ExplosionToSpawn") # {}
    /\ Live("Player") # {} \/ Live("Enemy") # {}

====
